---- MODULE Spec2Model ----
(***************************************************************************)
(* A model of todo-scan (src/src/lib.rs, src/src/main.rs): the keyword     *)
(* matcher, the file filter, scan_file's line loop, scan_directory's walk  *)
(* and main's loop over the requested roots.                               *)
(*                                                                         *)
(* Text is modelled character by character: a string is a sequence of      *)
(* one-character strings, a path is a sequence of components, each a       *)
(* string.  Four specifications share the definitions:                    *)
(*   SpecMatch  the compiled keyword regex applied to one line             *)
(*   SpecFile   scan_file, one step per line read                          *)
(*   SpecDir    main over ONE root, with every filter configuration        *)
(*   SpecMain   main over a list of roots                                  *)
(***************************************************************************)
EXTENDS Integers, Sequences, FiniteSets, TLC

VARIABLES
    config,        \* ScanConfig of the run (lib.rs 44-51)
    line,          \* SpecMatch: the line handed to keyword_regex.captures
    captured,      \* SpecMatch: the outcome of captures
    sf,            \* SpecFile: scan_file's locals and its program counter
    fs,            \* the file system the run looks at
    cli,           \* main: the parsed command line (paths, quiet)
    pc,            \* main / scan_directory: program counter
    rootIdx,       \* main: index of the root being handled
    stack,         \* scan_directory: the walker's pending directory listings
    entries,       \* scan_directory: its local Vec<TodoEntry>
    dirResult,     \* scan_directory: the value returned to the caller
    all_entries,   \* main: the aggregated Vec<TodoEntry>
    warnings,      \* what was written to stderr as a warning
    output         \* what the renderer produced

vars == <<config, line, captured, sf, fs, cli, pc, rootIdx, stack, entries,
          dirResult, all_entries, warnings, output>>

(***************************************************************************)
(* Bounds of the model.                                                    *)
(***************************************************************************)
MaxLineLen == 4     \* SpecMatch: longest line enumerated
MaxLines == 3       \* SpecFile: most lines in the scanned file
MaxRoots == 2       \* SpecMain: most paths on the command line
MaxBufferLines == 5 \* SpecBuffer: most lines in the scanned file

\* Option<T>: None is the empty sequence, Some(x) the sequence of x alone.
NoneV == <<>>

Some(x) == <<x>>

(***************************************************************************)
(* Characters and strings.                                                 *)
(***************************************************************************)
UpperChars ==
    <<"A","B","C","D","E","F","G","H","I","J","K","L","M",
      "N","O","P","Q","R","S","T","U","V","W","X","Y","Z">>

LowerChars ==
    <<"a","b","c","d","e","f","g","h","i","j","k","l","m",
      "n","o","p","q","r","s","t","u","v","w","x","y","z">>

DigitChars == <<"0","1","2","3","4","5","6","7","8","9">>

\* The characters of the model in byte order.
ByteOrder ==
    <<"\t", " ", "#", ".", "/">> \o DigitChars \o <<":", "=", "@">>
        \o UpperChars \o <<"_">> \o LowerChars

Range(s) == { s[i] : i \in 1..Len(s) }

IndexIn(s, c) == CHOOSE i \in 1..Len(s) : s[i] = c

Code(c) == IndexIn(ByteOrder, c)

\* (?i): simple case folding.
ToLower(c) == IF c \in Range(UpperChars) THEN LowerChars[IndexIn(UpperChars, c)] ELSE c

FoldCase(s) == [i \in 1..Len(s) |-> ToLower(s[i])]

\* \w of the regex crate, on the characters of the model.
IsWordChar(c) == c \in Range(UpperChars) \cup Range(LowerChars) \cup Range(DigitChars) \cup {"_"}

IsWhitespace(c) == c \in {" ", "\t"}

\* str::trim
RECURSIVE TrimStart(_)
TrimStart(s) ==
    IF s # <<>> /\ IsWhitespace(Head(s)) THEN TrimStart(Tail(s)) ELSE s

RECURSIVE TrimEnd(_)
TrimEnd(s) ==
    IF s # <<>> /\ IsWhitespace(s[Len(s)]) THEN TrimEnd(SubSeq(s, 1, Len(s) - 1)) ELSE s

Trim(s) == TrimEnd(TrimStart(s))

\* str::starts_with
StartsWith(s, p) == Len(p) <= Len(s) /\ SubSeq(s, 1, Len(p)) = p

\* str::contains, and a regex .*<escaped p>.* tried with is_match
Contains(s, p) ==
    \E i \in 1..(Len(s) - Len(p) + 1) : SubSeq(s, i, i + Len(p) - 1) = p

\* Byte-wise lexicographic order of two strings (Ord for OsStr).
CharLess(c, d) == Code(c) < Code(d)

RECURSIVE StrLess(_, _)
StrLess(a, b) ==
    IF b = <<>> THEN FALSE
    ELSE IF a = <<>> THEN TRUE
    ELSE IF CharLess(Head(a), Head(b)) THEN TRUE
    ELSE IF CharLess(Head(b), Head(a)) THEN FALSE
    ELSE StrLess(Tail(a), Tail(b))

(***************************************************************************)
(* The keyword matcher: (?i)\b(k1|k2|...)\b, each keyword escaped.         *)
(***************************************************************************)
\* \b at position p of l: between l[p-1] and l[p], exactly one is a word character.
IsWordBoundary(l, p) ==
    LET before == p > 1 /\ IsWordChar(l[p - 1])
        after == p <= Len(l) /\ IsWordChar(l[p])
    IN  before # after

\* The escaped keyword k matches l literally (case folded) at i, between two \b.
KeywordMatchesAt(k, l, i) ==
    /\ i + Len(k) - 1 <= Len(l)
    /\ FoldCase(SubSeq(l, i, i + Len(k) - 1)) = FoldCase(k)
    /\ IsWordBoundary(l, i)
    /\ IsWordBoundary(l, i + Len(k))

\* Regex::captures(..).get(1): the leftmost match, the first alternative at it,
\* as it is written in the line.
Captures(keywords, l) ==
    LET starts == { i \in 1..(Len(l) + 1) :
                      \E n \in 1..Len(keywords) : KeywordMatchesAt(keywords[n], l, i) }
    IN  IF starts = {} THEN NoneV
        ELSE LET i == CHOOSE x \in starts : \A y \in starts : x <= y
                 n == CHOOSE x \in 1..Len(keywords) :
                        /\ KeywordMatchesAt(keywords[x], l, i)
                        /\ \A y \in 1..(x - 1) : ~KeywordMatchesAt(keywords[y], l, i)
             IN  Some(SubSeq(l, i, i + Len(keywords[n]) - 1))

(***************************************************************************)
(* Paths: a path is the sequence of its components.                        *)
(***************************************************************************)
\* Path::file_name
FileName(path) == path[Len(path)]

\* Path::parent
Parent(path) == SubSeq(path, 1, Len(path) - 1)

\* Path::join with one component
Join(path, name) == Append(path, name)

\* Path::to_string_lossy: the components joined by '/'.
RECURSIVE PathString(_)
PathString(path) ==
    IF path = <<>> THEN <<>>
    ELSE IF Len(path) = 1 THEN path[1]
    ELSE path[1] \o <<"/">> \o PathString(Tail(path))

\* Ord for Path: component by component, each component byte-wise.
RECURSIVE PathLess(_, _)
PathLess(a, b) ==
    IF b = <<>> THEN FALSE
    ELSE IF a = <<>> THEN TRUE
    ELSE IF StrLess(Head(a), Head(b)) THEN TRUE
    ELSE IF StrLess(Head(b), Head(a)) THEN FALSE
    ELSE PathLess(Tail(a), Tail(b))

\* The position of the last '.' of a file name that splits it into stem and
\* extension: 0 when there is none, or when the only one leads the name.
LastDot(name) ==
    LET dots == { i \in 2..Len(name) : name[i] = "." }
    IN  IF dots = {} THEN 0 ELSE CHOOSE i \in dots : \A j \in dots : j <= i

\* Path::extension(..).unwrap_or("")
Extension(path) ==
    LET name == FileName(path)
        d == LastDot(name)
    IN  IF d = 0 THEN <<>> ELSE SubSeq(name, d + 1, Len(name))

\* Path::file_stem
FileStem(path) ==
    LET name == FileName(path)
        d == LastDot(name)
    IN  IF d = 0 THEN name ELSE SubSeq(name, 1, d - 1)

(***************************************************************************)
(* The file filter.                                                        *)
(***************************************************************************)
SupportedExts ==
    {
      <<"p","y">>, <<"j","s">>, <<"t","s">>, <<"r","s">>,
      <<"g","o">>, <<"j","a","v","a">>, <<"c">>, <<"c","p","p">>,
      <<"h">>, <<"h","p","p">>, <<"c","s">>, <<"r","b">>,
      <<"p","h","p">>, <<"s","w","i","f","t">>, <<"k","t">>, <<"s","c","a","l","a">>,
      <<"s","h">>, <<"b","a","s","h">>, <<"z","s","h">>, <<"f","i","s","h">>,
      <<"m","d">>, <<"t","x","t">>, <<"r","s","t">>, <<"t","o","m","l">>,
      <<"y","a","m","l">>, <<"y","m","l">>, <<"j","s","o","n">>, <<"x","m","l">>,
      <<"h","t","m","l">>, <<"c","s","s">>, <<"s","c","s","s">>, <<"l","e","s","s">>,
      <<"s","q","l">>, <<"r">>, <<"m","a","t","l","a","b">>, <<"l","u","a">>
    }

Makefile == <<"M","a","k","e","f","i","l","e">>

Dockerfile == <<"D","o","c","k","e","r","f","i","l","e">>

Jenkinsfile == <<"J","e","n","k","i","n","s","f","i","l","e">>

DotGit == <<".","g","i","t">>

DotGitignore == <<".","g","i","t","i","g","n","o","r","e">>

NodeModules == <<"n","o","d","e","_","m","o","d","u","l","e","s">>

\* Some pattern of the list is a substring of the path string.
AnyPatternMatches(patterns, path) ==
    \E n \in 1..Len(patterns) : Contains(PathString(path), patterns[n])

\* The file-name rule for a file without a supported extension.
NamedLikeBuildFile(path) ==
    \/ StartsWith(FileStem(path), Makefile)
    \/ FileStem(path) = Dockerfile
    \/ StartsWith(FileStem(path), Jenkinsfile)

ShouldScanFile(cfg, path) ==
    IF Extension(path) \notin SupportedExts
    THEN NamedLikeBuildFile(path)
    ELSE IF AnyPatternMatches(cfg.exclude_patterns, path) THEN FALSE
    ELSE IF cfg.include_patterns # <<>>
         THEN AnyPatternMatches(cfg.include_patterns, path)
    ELSE TRUE

(***************************************************************************)
(* The file system of the model.  The tree is fixed; whether p/.gitignore  *)
(* exists and what cannot be read are chosen by Init (the variable fs):    *)
(*   fs.gitignore  p/.gitignore exists                                     *)
(*   fs.badFile    a file that cannot be scanned (NoPath: none)            *)
(*   fs.badLine    0: badFile cannot be opened; k > 0: its k-th next_line  *)
(*                 fails                                                   *)
(*   fs.badDir     a directory that cannot be listed (NoPath: none)        *)
(*                                                                         *)
(*   p/  a.py  Makefile  [.gitignore]  .git/h.sh  node_modules/c.js        *)
(*   q/  d.py  s/e.js  s/n.bin                                             *)
(*   b.py                                                                  *)
(***************************************************************************)
NoPath == <<>>

DirP == << <<"p">> >>

DirGit == Join(DirP, DotGit)

DirNodeModules == Join(DirP, NodeModules)

DirQ == << <<"q">> >>

DirS == Join(DirQ, <<"s">>)

FileA == Join(DirP, <<"a",".","p","y">>)

FileMakefile == Join(DirP, Makefile)

\* A file whose lines hold several keyword occurrences.
FileM == Join(DirP, <<"m",".","g","o">>)

FileGitignore == Join(DirP, DotGitignore)

FileH == Join(DirGit, <<"h",".","s","h">>)

FileC == Join(DirNodeModules, <<"c",".","j","s">>)

FileD == Join(DirQ, <<"d",".","p","y">>)

FileE == Join(DirS, <<"e",".","j","s">>)

FileN == Join(DirS, <<"n",".","b","i","n">>)

FileB == << <<"b",".","p","y">> >>

\* A file named as a root, with an indented match and a line of two keywords.
FileK == << <<"k",".","p","y">> >>

Missing == << <<"z","z">> >>

Dirs == {DirP, DirGit, DirNodeModules, DirQ, DirS}

Files(f) ==
    {FileA, FileMakefile, FileM, FileH, FileC, FileD, FileE, FileN, FileB, FileK}
        \cup (IF f.gitignore THEN {FileGitignore} ELSE {})

\* The lines of each file, without their line ends.
FileLines(path) ==
    CASE path = FileA -> << <<"#"," ","T","O","D","O">>, <<>>, <<"F","I","X","M","E"," ","x">> >>
      [] path = FileMakefile -> << <<"#"," ","f","i","x","m","e">> >>
      [] path = FileM -> << <<"F","I","X","M","E"," ","t","o","d","o">>, <<"T","O","D","O"," ","T","O","D","O">> >>
      [] path = FileGitignore -> << <<"T","O","D","O">> >>
      [] path = FileH -> << <<"x">>, <<"T","O","D","O">> >>
      [] path = FileC -> << <<"T","O","D","O">> >>
      [] path = FileD -> << <<" ">>, <<"t","o","d","o",":"," ","d">>, <<"x"," ","="," ","1">>, <<"T","O","D","O">> >>
      [] path = FileE -> << <<"F","i","x","m","e">> >>
      [] path = FileN -> << <<"T","O","D","O">> >>
      [] path = FileB -> << <<"T","O","D","O","S">>, <<"t","o","d","o",":"," ","b">>, <<"T","O","D","O">> >>
      [] path = FileK -> << <<" ","T","O","D","O">>, <<>>, <<"f","i","x","m","e"," ","T","O","D","O">> >>
      [] OTHER -> <<>>

\* Path::is_dir, Path::is_file, Path::exists
IsDir(f, path) == path \in Dirs

IsFile(f, path) == path \in Files(f)

Exists(f, path) == IsDir(f, path) \/ IsFile(f, path)

\* What read_dir lists for a directory.
Children(f, dir) ==
    { n \in Dirs \cup Files(f) : Len(n) = Len(dir) + 1 /\ Parent(n) = dir }

\* Metadata::len: every line is followed by one line feed.
RECURSIVE FileSize(_)
FileSize(lines) ==
    IF lines = <<>> THEN 0 ELSE Len(Head(lines)) + 1 + FileSize(Tail(lines))

(***************************************************************************)
(* The ignore heuristic.                                                   *)
(***************************************************************************)
IsIgnored(cfg, f, path) ==
    IF FileName(path) = DotGit THEN TRUE
    ELSE /\ cfg.respect_gitignore
         /\ Exists(f, Join(Parent(path), DotGitignore))
         /\ \/ StartsWith(FileName(path), <<".">>)
            \/ Contains(FileName(path), NodeModules)

(***************************************************************************)
(* ScanConfig and TodoEntry.                                               *)
(***************************************************************************)
KwTodo == <<"T","O","D","O">>

KwFixme == <<"F","I","X","M","E">>

\* ScanConfig::default
DefaultConfig ==
    [ keywords |-> <<KwTodo, KwFixme>>,
      include_patterns |-> <<>>,
      exclude_patterns |-> <<>>,
      context_lines |-> 0,
      respect_gitignore |-> TRUE,
      max_file_size |-> 10 * 1024 * 1024 ]

\* TodoEntry::new
NewEntry(path, line_number, keyword, text) ==
    [ file_path |-> path,
      line_number |-> line_number,
      keyword |-> keyword,
      text |-> text,
      context |-> NoneV ]

\* TodoEntry::with_context
WithContext(entry, context) == [entry EXCEPT !.context = Some(context)]

\* Result<Vec<TodoEntry>>
Ok(es) == [ok |-> TRUE, entries |-> es, err |-> ""]

Err(msg) == [ok |-> FALSE, entries |-> <<>>, err |-> msg]

(***************************************************************************)
(* scan_file.                                                              *)
(***************************************************************************)
\* Mutant of TooLarge: a file of exactly max_file_size is skipped too.
TooLargeInclusive(file_size, max_file_size) == file_size >= max_file_size

\* The size test that skips a file.
TooLarge(file_size, max_file_size) == file_size > max_file_size

BuildContext(buffer, current_line) == current_line

\* The locals of the line loop before its first iteration.
LoopInit == [line_number |-> 0, line_buffer |-> <<>>, entries |-> <<>>]

\* Mutant of PushLine: the oldest line is never removed.
PushLineNoEviction(cfg, buffer, l) ==
    IF cfg.context_lines > 0 THEN Append(buffer, l) ELSE buffer

\* The rolling buffer after a non-blank line.
PushLine(cfg, buffer, l) ==
    IF cfg.context_lines > 0
    THEN LET pushed == Append(buffer, l)
         IN  IF Len(pushed) > cfg.context_lines * 2 + 1 THEN Tail(pushed) ELSE pushed
    ELSE buffer

\* Mutant of LoopStep: the counter advances only on the lines that are not blank.
LoopStepCountsNonBlank(cfg, path, st, l) ==
    LET n == st.line_number + 1
        cap == Captures(cfg.keywords, l)
        plain == NewEntry(path, n, cap[1], Trim(l))
        entry == IF cfg.context_lines > 0
                 THEN WithContext(plain, BuildContext(st.line_buffer, l))
                 ELSE plain
    IN  IF Trim(l) = <<>>
        THEN st
        ELSE [ line_number |-> n,
               entries |-> IF cap # NoneV THEN Append(st.entries, entry) ELSE st.entries,
               line_buffer |-> PushLine(cfg, st.line_buffer, l) ]

\* Mutant of LoopStep: an entry for every keyword that occurs in the line, in
\* the order of cfg.keywords, in place of one for the leftmost match.
LoopStepEntryPerKeyword(cfg, path, st, l) ==
    LET n == st.line_number + 1
        found == SelectSeq(cfg.keywords,
                           LAMBDA k : \E i \in 1..(Len(l) + 1) : KeywordMatchesAt(k, l, i))
        plain(k) == NewEntry(path, n, Captures(<<k>>, l)[1], Trim(l))
        entry(k) == IF cfg.context_lines > 0
                    THEN WithContext(plain(k), BuildContext(st.line_buffer, l))
                    ELSE plain(k)
    IN  IF Trim(l) = <<>>
        THEN [st EXCEPT !.line_number = n]
        ELSE [ line_number |-> n,
               entries |-> st.entries \o [x \in 1..Len(found) |-> entry(found[x])],
               line_buffer |-> PushLine(cfg, st.line_buffer, l) ]

\* One iteration of the line loop on the line l just read.
LoopStep(cfg, path, st, l) ==
    LET n == st.line_number + 1
        cap == Captures(cfg.keywords, l)
        plain == NewEntry(path, n, cap[1], Trim(l))
        entry == IF cfg.context_lines > 0
                 THEN WithContext(plain, BuildContext(st.line_buffer, l))
                 ELSE plain
    IN  IF Trim(l) = <<>>
        THEN [st EXCEPT !.line_number = n]
        ELSE [ line_number |-> n,
               entries |-> IF cap # NoneV THEN Append(st.entries, entry) ELSE st.entries,
               line_buffer |-> PushLine(cfg, st.line_buffer, l) ]

\* What scan_file finds at a path: its kind, its lines, whether it opens, and
\* which call of next_line fails (0: none).
FileMeta(f, path) ==
    [ kind |-> IF IsFile(f, path) THEN "file"
               ELSE IF IsDir(f, path) THEN "dir" ELSE "missing",
      lines |-> IF IsFile(f, path) THEN FileLines(path) ELSE <<>>,
      openFail |-> path = f.badFile /\ f.badLine = 0,
      failAt |-> IF path = f.badFile THEN f.badLine ELSE 0 ]

\* The line loop from its k-th call of next_line on: an error drops the entries
\* found so far.
RECURSIVE RunLoop(_, _, _, _, _)
RunLoop(cfg, path, meta, k, st) ==
    IF k = meta.failAt THEN Err("Failed to read line")
    ELSE IF k > Len(meta.lines) THEN Ok(st.entries)
    ELSE RunLoop(cfg, path, meta, k + 1, LoopStep(cfg, path, st, meta.lines[k]))

\* scan_file as one step, as scan_directory and main await it.
ScanFile(cfg, path, meta) ==
    IF meta.kind = "missing" THEN Err("Failed to read metadata")
    ELSE IF meta.kind # "file" THEN Ok(<<>>)
    ELSE IF TooLarge(FileSize(meta.lines), cfg.max_file_size) THEN Ok(<<>>)
    ELSE IF meta.openFail THEN Err("Failed to open")
    ELSE RunLoop(cfg, path, meta, 1, LoopInit)

\* scan_file step by step: sf.pc is the place in the function, sf.pos the number
\* of lines next_line has handed out, sf.st the locals of the loop.
SfIdle ==
    [ pc |-> "idle", path |-> NoPath,
      meta |-> [kind |-> "missing", lines |-> <<>>, openFail |-> FALSE, failAt |-> 0],
      pos |-> 0, st |-> LoopInit, result |-> Err("") ]

SfReturn(result) == sf' = [sf EXCEPT !.pc = "returned", !.result = result]

SfMetadataFail ==
    /\ sf.pc = "metadata"
    /\ sf.meta.kind = "missing"
    /\ SfReturn(Err("Failed to read metadata"))

SfNotAFile ==
    /\ sf.pc = "metadata"
    /\ sf.meta.kind = "dir"
    /\ SfReturn(Ok(<<>>))

SfTooLarge ==
    /\ sf.pc = "metadata"
    /\ sf.meta.kind = "file"
    /\ TooLarge(FileSize(sf.meta.lines), config.max_file_size)
    /\ SfReturn(Ok(<<>>))

SfOpen ==
    /\ sf.pc = "metadata"
    /\ sf.meta.kind = "file"
    /\ ~TooLarge(FileSize(sf.meta.lines), config.max_file_size)
    /\ ~sf.meta.openFail
    /\ sf' = [sf EXCEPT !.pc = "loop"]

SfOpenFail ==
    /\ sf.pc = "metadata"
    /\ sf.meta.kind = "file"
    /\ ~TooLarge(FileSize(sf.meta.lines), config.max_file_size)
    /\ sf.meta.openFail
    /\ SfReturn(Err("Failed to open"))

SfReadLine ==
    /\ sf.pc = "loop"
    /\ sf.pos + 1 # sf.meta.failAt
    /\ sf.pos < Len(sf.meta.lines)
    /\ sf' = [sf EXCEPT !.pos = sf.pos + 1,
                        !.st = LoopStep(config, sf.path, sf.st, sf.meta.lines[sf.pos + 1])]

SfReadFail ==
    /\ sf.pc = "loop"
    /\ sf.pos + 1 = sf.meta.failAt
    /\ SfReturn(Err("Failed to read line"))

SfEndOfFile ==
    /\ sf.pc = "loop"
    /\ sf.pos + 1 # sf.meta.failAt
    /\ sf.pos = Len(sf.meta.lines)
    /\ SfReturn(Ok(sf.st.entries))

(***************************************************************************)
(* scan_directory: the walk, one directory entry per step.  stack holds,   *)
(* innermost first, the entries each open directory has still to yield;   *)
(* the walker yields them in any order.                                    *)
(***************************************************************************)
\* The comparator of entries.sort_by.
EntryLess(a, b) ==
    \/ PathLess(a.file_path, b.file_path)
    \/ /\ a.file_path = b.file_path
       /\ a.line_number < b.line_number

\* e placed behind every element of the sorted sequence that is not greater.
RECURSIVE InsertSorted(_, _)
InsertSorted(e, sorted) ==
    IF sorted = <<>> THEN <<e>>
    ELSE IF EntryLess(e, Head(sorted)) THEN <<e>> \o sorted
    ELSE <<Head(sorted)>> \o InsertSorted(e, Tail(sorted))

RECURSIVE SortFrom(_, _)
SortFrom(es, sorted) ==
    IF es = <<>> THEN sorted ELSE SortFrom(Tail(es), InsertSorted(Head(es), sorted))

\* Mutant of SortEntries: the sort is left out.
SortEntriesOmitted(es) == es

\* Vec::sort_by: a stable sort.
SortEntries(es) == SortFrom(es, <<>>)

\* The pending listings without the exhausted ones.
RECURSIVE DropExhausted(_)
DropExhausted(st) ==
    IF st # <<>> /\ Head(st) = {} THEN DropExhausted(Tail(st)) ELSE st

\* The pending listings once entry e of the innermost one has been yielded.
Yielded(e) == <<Head(stack) \ {e}>> \o Tail(stack)

\* filter_entry is installed only when respect_gitignore is set.
FilteredOut(e) == config.respect_gitignore /\ IsIgnored(config, fs, e)

FileWarning(path) == [by |-> "scan_directory", what |-> "Failed to scan", path |-> path]

RootWarning(what, path) == [by |-> "main", what |-> what, path |-> path]

WalkReturn(result) ==
    /\ dirResult' = result
    /\ pc' = "dir_returned"
    /\ stack' = <<>>
    /\ entries' = <<>>

\* Mutant of WalkFiltered: the rejected entry is dropped after the walker has
\* listed it (Iterator::filter in place of filter_entry).
WalkFilteredAfterListing ==
    /\ pc = "walk" /\ stack # <<>>
    /\ \E e \in Head(stack) :
         /\ FilteredOut(e)
         /\ stack' = DropExhausted((IF IsDir(fs, e) THEN <<Children(fs, e)>> ELSE <<>>)
                                       \o Yielded(e))
    /\ UNCHANGED <<config, line, captured, sf, fs, cli, pc, rootIdx, entries,
                   dirResult, all_entries, warnings, output>>

WalkFiltered ==
    /\ pc = "walk" /\ stack # <<>>
    /\ \E e \in Head(stack) :
         /\ FilteredOut(e)
         /\ stack' = DropExhausted(Yielded(e))
    /\ UNCHANGED <<config, line, captured, sf, fs, cli, pc, rootIdx, entries,
                   dirResult, all_entries, warnings, output>>

WalkDirectory ==
    /\ pc = "walk" /\ stack # <<>>
    /\ \E e \in Head(stack) :
         /\ ~FilteredOut(e)
         /\ IsDir(fs, e)
         /\ e # fs.badDir
         /\ stack' = DropExhausted(<<Children(fs, e)>> \o Yielded(e))
    /\ UNCHANGED <<config, line, captured, sf, fs, cli, pc, rootIdx, entries,
                   dirResult, all_entries, warnings, output>>

WalkError ==
    /\ pc = "walk" /\ stack # <<>>
    /\ \E e \in Head(stack) :
         /\ ~FilteredOut(e)
         /\ IsDir(fs, e)
         /\ e = fs.badDir
    /\ WalkReturn(Err("Failed to read directory entry"))
    /\ UNCHANGED <<config, line, captured, sf, fs, cli, rootIdx, all_entries,
                   warnings, output>>

WalkSkipFile ==
    /\ pc = "walk" /\ stack # <<>>
    /\ \E e \in Head(stack) :
         /\ ~FilteredOut(e)
         /\ IsFile(fs, e)
         /\ ~ShouldScanFile(config, e)
         /\ stack' = DropExhausted(Yielded(e))
    /\ UNCHANGED <<config, line, captured, sf, fs, cli, pc, rootIdx, entries,
                   dirResult, all_entries, warnings, output>>

WalkScanOk ==
    /\ pc = "walk" /\ stack # <<>>
    /\ \E e \in Head(stack) :
         /\ ~FilteredOut(e)
         /\ IsFile(fs, e)
         /\ ShouldScanFile(config, e)
         /\ ScanFile(config, e, FileMeta(fs, e)).ok
         /\ entries' = entries \o ScanFile(config, e, FileMeta(fs, e)).entries
         /\ stack' = DropExhausted(Yielded(e))
    /\ UNCHANGED <<config, line, captured, sf, fs, cli, pc, rootIdx,
                   dirResult, all_entries, warnings, output>>

\* Mutant of WalkScanErr: the error of scan_file is propagated with ?.
WalkScanErrPropagated ==
    /\ pc = "walk" /\ stack # <<>>
    /\ \E e \in Head(stack) :
         /\ ~FilteredOut(e)
         /\ IsFile(fs, e)
         /\ ShouldScanFile(config, e)
         /\ ~ScanFile(config, e, FileMeta(fs, e)).ok
    /\ WalkReturn(Err("Failed to scan"))
    /\ UNCHANGED <<config, line, captured, sf, fs, cli, rootIdx, all_entries,
                   warnings, output>>

WalkScanErr ==
    /\ pc = "walk" /\ stack # <<>>
    /\ \E e \in Head(stack) :
         /\ ~FilteredOut(e)
         /\ IsFile(fs, e)
         /\ ShouldScanFile(config, e)
         /\ ~ScanFile(config, e, FileMeta(fs, e)).ok
         /\ warnings' = Append(warnings, FileWarning(e))
         /\ stack' = DropExhausted(Yielded(e))
    /\ UNCHANGED <<config, line, captured, sf, fs, cli, pc, rootIdx, entries,
                   dirResult, all_entries, output>>

WalkFinish ==
    /\ pc = "walk" /\ stack = <<>>
    /\ WalkReturn(Ok(SortEntries(entries)))
    /\ UNCHANGED <<config, line, captured, sf, fs, cli, rootIdx, all_entries,
                   warnings, output>>

(***************************************************************************)
(* main: the loop over cli.paths, then the rendering.                      *)
(***************************************************************************)
CurrentRoot == cli.paths[rootIdx + 1]

\* A warning of main's, unless --quiet.
MainWarn(what, path) ==
    IF cli.quiet THEN warnings ELSE Append(warnings, RootWarning(what, path))

MainScanFileOk ==
    /\ pc = "main" /\ rootIdx < Len(cli.paths)
    /\ IsFile(fs, CurrentRoot)
    /\ ScanFile(config, CurrentRoot, FileMeta(fs, CurrentRoot)).ok
    /\ all_entries' = all_entries \o ScanFile(config, CurrentRoot, FileMeta(fs, CurrentRoot)).entries
    /\ rootIdx' = rootIdx + 1
    /\ UNCHANGED <<config, line, captured, sf, fs, cli, pc, stack, entries,
                   dirResult, warnings, output>>

MainScanFileErr ==
    /\ pc = "main" /\ rootIdx < Len(cli.paths)
    /\ IsFile(fs, CurrentRoot)
    /\ ~ScanFile(config, CurrentRoot, FileMeta(fs, CurrentRoot)).ok
    /\ warnings' = MainWarn("Failed to scan", CurrentRoot)
    /\ rootIdx' = rootIdx + 1
    /\ UNCHANGED <<config, line, captured, sf, fs, cli, pc, stack, entries,
                   dirResult, all_entries, output>>

MainScanDirectory ==
    /\ pc = "main" /\ rootIdx < Len(cli.paths)
    /\ ~IsFile(fs, CurrentRoot)
    /\ IsDir(fs, CurrentRoot)
    /\ pc' = "walk"
    /\ stack' = <<{CurrentRoot}>>
    /\ entries' = <<>>
    /\ UNCHANGED <<config, line, captured, sf, fs, cli, rootIdx, dirResult,
                   all_entries, warnings, output>>

MainPathNotFound ==
    /\ pc = "main" /\ rootIdx < Len(cli.paths)
    /\ ~IsFile(fs, CurrentRoot)
    /\ ~IsDir(fs, CurrentRoot)
    /\ warnings' = MainWarn("Path not found", CurrentRoot)
    /\ rootIdx' = rootIdx + 1
    /\ UNCHANGED <<config, line, captured, sf, fs, cli, pc, stack, entries,
                   dirResult, all_entries, output>>

MainDirectoryOk ==
    /\ pc = "dir_returned"
    /\ dirResult.ok
    /\ all_entries' = all_entries \o dirResult.entries
    /\ pc' = "main"
    /\ rootIdx' = rootIdx + 1
    /\ UNCHANGED <<config, line, captured, sf, fs, cli, stack, entries,
                   dirResult, warnings, output>>

\* Mutant of MainDirectoryErr: the error of scan_directory ends the run.
MainDirectoryErrAborts ==
    /\ pc = "dir_returned"
    /\ ~dirResult.ok
    /\ pc' = "aborted"
    /\ UNCHANGED <<config, line, captured, sf, fs, cli, rootIdx, stack, entries,
                   dirResult, all_entries, warnings, output>>

MainDirectoryErr ==
    /\ pc = "dir_returned"
    /\ ~dirResult.ok
    /\ warnings' = MainWarn("Failed to scan", CurrentRoot)
    /\ pc' = "main"
    /\ rootIdx' = rootIdx + 1
    /\ UNCHANGED <<config, line, captured, sf, fs, cli, stack, entries,
                   dirResult, all_entries, output>>

\* The file headers format_results_colored writes: one whenever the entry's
\* file differs from current_file.
RECURSIVE Headers(_, _)
Headers(es, current_file) ==
    IF es = <<>> THEN <<>>
    ELSE IF current_file # Some(Head(es).file_path)
         THEN <<Head(es).file_path>> \o Headers(Tail(es), Some(Head(es).file_path))
    ELSE Headers(Tail(es), current_file)

\* format_results_colored: the headers, a row per entry, the summary count.
FormatResultsColored(es, show_context) ==
    IF es = <<>>
    THEN [format |-> "text", none_found |-> TRUE, headers |-> <<>>, rows |-> <<>>, summary |-> 0]
    ELSE [ format |-> "text", none_found |-> FALSE,
           headers |-> Headers(es, NoneV),
           rows |-> [i \in 1..Len(es) |->
                       [ line_number |-> es[i].line_number,
                         text |-> es[i].text,
                         ellipsis |-> show_context /\ es[i].context # NoneV ]],
           summary |-> Len(es) ]

\* Mutant of EntryJson: context is always serialized, None as null (NoneV).
EntryJsonWithNull(e) ==
    [file_path |-> PathString(e.file_path), line_number |-> e.line_number,
     keyword |-> e.keyword, text |-> e.text,
     context |-> IF e.context = NoneV THEN NoneV ELSE e.context[1]]

\* Serialize for TodoEntry: context is skipped when it is None.
EntryJson(e) ==
    IF e.context = NoneV
    THEN [file_path |-> PathString(e.file_path), line_number |-> e.line_number,
          keyword |-> e.keyword, text |-> e.text]
    ELSE [file_path |-> PathString(e.file_path), line_number |-> e.line_number,
          keyword |-> e.keyword, text |-> e.text, context |-> e.context[1]]

FormatResultsJson(es) ==
    [format |-> "json", array |-> [i \in 1..Len(es) |-> EntryJson(es[i])]]

\* The process exit code.
ExitCode == IF cli.fail_on_find /\ all_entries # <<>> THEN 1 ELSE 0

MainRender ==
    /\ pc = "main" /\ rootIdx = Len(cli.paths)
    /\ output' = [ out |-> IF cli.format = "text"
                           THEN FormatResultsColored(all_entries, config.context_lines > 0)
                           ELSE FormatResultsJson(all_entries),
                   exit |-> ExitCode ]
    /\ pc' = "exited"
    /\ UNCHANGED <<config, line, captured, sf, fs, cli, rootIdx, stack, entries,
                   dirResult, all_entries, warnings>>

(***************************************************************************)
(* Initial states and specifications.                                      *)
(***************************************************************************)
\* All sequences over S of length at most n.
SeqsUpTo(S, n) == UNION { [1..k -> S] : k \in 0..n }

NoFaults == [gitignore |-> FALSE, badFile |-> NoPath, badLine |-> 0, badDir |-> NoPath]

NoCli == [paths |-> <<>>, quiet |-> FALSE, format |-> "text", fail_on_find |-> FALSE]

NoOutput == [out |-> [format |-> "none"], exit |-> 0]

\* main and scan_directory not started.
MainIdle ==
    /\ pc = "idle" /\ rootIdx = 0 /\ stack = <<>> /\ entries = <<>>
    /\ dirResult = Err("") /\ all_entries = <<>> /\ warnings = <<>>
    /\ output = NoOutput

\* main about to enter its loop over cli.paths.
MainStart ==
    /\ pc = "main" /\ rootIdx = 0 /\ stack = <<>> /\ entries = <<>>
    /\ dirResult = Err("") /\ all_entries = <<>> /\ warnings = <<>>
    /\ output = NoOutput

---------------------------------------------------------------------------
\* SpecMatch: one line through one iteration of scan_file's loop.
MatchAlphabet == {"T", "t", "s", " ", "@"}

MatchKeywords ==
    { << <<"T">> >>, << <<"T","t">> >>, << <<"T">>, <<"s","T">> >>,
      << <<"@","T">> >>, << <<"T","@">> >> }

InitMatch ==
    /\ config \in { [DefaultConfig EXCEPT !.keywords = k] : k \in MatchKeywords }
    /\ line \in SeqsUpTo(MatchAlphabet, MaxLineLen)
    /\ captured = [done |-> FALSE, st |-> LoopInit]
    /\ sf = SfIdle /\ fs = NoFaults /\ cli = NoCli
    /\ MainIdle

MatchLine ==
    /\ ~captured.done
    /\ captured' = [done |-> TRUE, st |-> LoopStep(config, FileB, LoopInit, line)]
    /\ UNCHANGED <<config, line, sf, fs, cli, pc, rootIdx, stack, entries,
                   dirResult, all_entries, warnings, output>>

NextMatch == MatchLine

SpecMatch == InitMatch /\ [][NextMatch]_vars

---------------------------------------------------------------------------
\* SpecFile: scan_file on one path.
LinePool == { <<>>, <<" ">>, <<"x">>, <<" ","T","O","D","O">>, <<"f","i","x","m","e"," ","T","O","D","O">> }

\* max_file_size around the size of the file, and the default.
SizeChoices(lines) ==
    { n \in {FileSize(lines) - 1, FileSize(lines)} : n >= 0 }
        \cup {DefaultConfig.max_file_size}

InitFile ==
    /\ \E lines \in SeqsUpTo(LinePool, MaxLines), ctx \in {0, 1},
          kind \in {"file", "dir", "missing"}, openFail \in BOOLEAN :
         \E max \in SizeChoices(lines), failAt \in 0..(Len(lines) + 1) :
            /\ kind # "file" => lines = <<>> /\ ~openFail /\ failAt = 0
            /\ max # DefaultConfig.max_file_size => ~openFail /\ failAt = 0
            /\ openFail => failAt = 0
            /\ config = [DefaultConfig EXCEPT !.context_lines = ctx, !.max_file_size = max]
            /\ sf = [ pc |-> "metadata", path |-> FileB,
                      meta |-> [kind |-> kind, lines |-> lines,
                                openFail |-> openFail, failAt |-> failAt],
                      pos |-> 0, st |-> LoopInit, result |-> Err("") ]
    /\ line = <<>> /\ captured = [done |-> FALSE, st |-> LoopInit]
    /\ fs = NoFaults /\ cli = NoCli
    /\ MainIdle

NextFile ==
    /\ \/ SfMetadataFail
       \/ SfNotAFile
       \/ SfTooLarge
       \/ SfOpen
       \/ SfOpenFail
       \/ SfReadLine
       \/ SfReadFail
       \/ SfEndOfFile
    /\ UNCHANGED <<config, line, captured, fs, cli, pc, rootIdx, stack, entries,
                   dirResult, all_entries, warnings, output>>

SpecFile == InitFile /\ [][NextFile]_vars

\* SpecBuffer: scan_file on files long enough to overfill the rolling buffer.
BufferPool == { <<" ">>, <<"x">>, <<"T","O","D","O">> }

InitBuffer ==
    /\ \E lines \in SeqsUpTo(BufferPool, MaxBufferLines), ctx \in {0, 1},
          kind \in {"file", "dir", "missing"}, openFail \in BOOLEAN :
         \E max \in {0, DefaultConfig.max_file_size}, failAt \in {0, Len(lines) + 1} :
            /\ kind # "file" => lines = <<>> /\ ~openFail /\ failAt = 0 /\ max # 0
            /\ max = 0 => lines # <<>> /\ ~openFail /\ failAt = 0
            /\ openFail => failAt = 0
            /\ config = [DefaultConfig EXCEPT !.context_lines = ctx, !.max_file_size = max]
            /\ sf = [ pc |-> "metadata", path |-> FileB,
                      meta |-> [kind |-> kind, lines |-> lines,
                                openFail |-> openFail, failAt |-> failAt],
                      pos |-> 0, st |-> LoopInit, result |-> Err("") ]
    /\ line = <<>> /\ captured = [done |-> FALSE, st |-> LoopInit]
    /\ fs = NoFaults /\ cli = NoCli
    /\ MainIdle

SpecBuffer == InitBuffer /\ [][NextFile]_vars

---------------------------------------------------------------------------
\* SpecDir and SpecMain: main, with scan_directory's walk inside it.
NextMain ==
    \/ MainScanFileOk
    \/ MainScanFileErr
    \/ MainScanDirectory
    \/ MainPathNotFound
    \/ WalkFiltered
    \/ WalkDirectory
    \/ WalkError
    \/ WalkSkipFile
    \/ WalkScanOk
    \/ WalkScanErr
    \/ WalkFinish
    \/ MainDirectoryOk
    \/ MainDirectoryErr
    \/ MainRender

IncludeChoices == { <<>>, << <<".","p","y">> >>, << <<".","j","s">>, <<"M","a","k","e">> >> }

ExcludeChoices == { <<>>, << <<"a",".">> >>, << <<"M","a","k","e">>, <<"q","/","s">> >> }

\* One root, every filter configuration.
InitDir ==
    /\ config \in { [DefaultConfig EXCEPT !.respect_gitignore = r,
                                            !.include_patterns = i,
                                            !.exclude_patterns = x] :
                       r \in BOOLEAN, i \in IncludeChoices, x \in ExcludeChoices }
    /\ fs \in { f \in [ gitignore : BOOLEAN,
                         badFile : {NoPath, FileA, FileB},
                         badLine : {0, 2},
                         badDir : {NoPath, DirP, DirNodeModules} ] :
                   f.badFile = NoPath => f.badLine = 0 }
    /\ cli \in { [NoCli EXCEPT !.paths = <<r>>] :
                    r \in {DirP, DirGit, DirQ, FileB, Missing} }
    /\ line = <<>> /\ captured = [done |-> FALSE, st |-> LoopInit]
    /\ sf = SfIdle
    /\ MainStart

SpecDir == InitDir /\ [][NextMain]_vars

\* Several roots, the default filter configuration.
InitMain ==
    /\ config = DefaultConfig
    /\ fs \in { f \in [ gitignore : {FALSE},
                         badFile : {NoPath, FileD, FileB},
                         badLine : {0, 2},
                         badDir : {NoPath, DirQ, DirS} ] :
                   f.badFile = NoPath => f.badLine = 0 }
    /\ cli \in [ paths : SeqsUpTo({DirQ, DirGit, FileD, FileB, Missing}, MaxRoots),
                  quiet : BOOLEAN,
                  format : {"text", "json"},
                  fail_on_find : BOOLEAN ]
    /\ line = <<>> /\ captured = [done |-> FALSE, st |-> LoopInit]
    /\ sf = SfIdle
    /\ MainStart

SpecMain == InitMain /\ [][NextMain]_vars

\* One root, with and without --context, rendered as text or JSON.
InitRender ==
    /\ config \in { [DefaultConfig EXCEPT !.context_lines = c] : c \in {0, 1} }
    /\ fs \in { f \in [ gitignore : {FALSE},
                         badFile : {NoPath, FileD, FileB},
                         badLine : {0, 2},
                         badDir : {NoPath, DirQ, DirS} ] :
                   f.badFile = NoPath => f.badLine = 0 }
    /\ cli \in [ paths : { <<r>> : r \in {FileK, FileB, DirQ, DirGit, Missing} },
                  quiet : BOOLEAN,
                  format : {"text", "json"},
                  fail_on_find : BOOLEAN ]
    /\ line = <<>> /\ captured = [done |-> FALSE, st |-> LoopInit]
    /\ sf = SfIdle
    /\ MainStart

SpecRender == InitRender /\ [][NextMain]_vars

Spec == SpecDir

(***************************************************************************)
(* What the claims speak of.                                               *)
(***************************************************************************)
IsPrefix(a, b) == Len(a) <= Len(b) /\ SubSeq(b, 1, Len(a)) = a

\* The walk from root yields path: no entry from root down to it is filtered out.
Visited(path, root) ==
    /\ IsPrefix(root, path)
    /\ \A k \in Len(root)..Len(path) : ~FilteredOut(SubSeq(path, 1, k))

\* The walk from root comes to a directory it cannot list.
ReachesBadDir(root) == IsDir(fs, fs.badDir) /\ Visited(fs.badDir, root)

\* The files of the walk from root that pass should_scan_file.
AdmittedFiles(root) ==
    { p \in Files(fs) : Visited(p, root) /\ ShouldScanFile(config, p) }

ScanOf(path) == ScanFile(config, path, FileMeta(fs, path))

\* The entries of the files of S, file after file in path order.
RECURSIVE InPathOrder(_)
InPathOrder(S) ==
    IF S = {} THEN <<>>
    ELSE LET first == CHOOSE p \in S : \A q \in S \ {p} : PathLess(p, q)
         IN  ScanOf(first).entries \o InPathOrder(S \ {first})

\* A sequence of entries ascends by file_path and, within a file, by line_number.
Ascending(es) ==
    \A i, j \in 1..Len(es) :
        i < j => \/ PathLess(es[i].file_path, es[j].file_path)
                 \/ /\ es[i].file_path = es[j].file_path
                    /\ es[i].line_number <= es[j].line_number

DirReturnedOk == pc = "dir_returned" /\ dirResult.ok

\* C1: whatever order the walker yields the files in, the sequence
\* scan_directory returns ascends by (file_path, line_number), and it is the one
\* sequence the tree determines: the admitted files' entries in path order.
C1_SortedAndDeterministic ==
    DirReturnedOk =>
        /\ Ascending(dirResult.entries)
        /\ dirResult.entries = InPathOrder(AdmittedFiles(CurrentRoot))

\* A returned sequence with entries of two files and two lines of one file.
C1_Witness ==
    /\ DirReturnedOk
    /\ \E i, j \in 1..Len(dirResult.entries) :
          dirResult.entries[i].file_path # dirResult.entries[j].file_path
    /\ \E i, j \in 1..Len(dirResult.entries) :
          /\ dirResult.entries[i].file_path = dirResult.entries[j].file_path
          /\ dirResult.entries[i].line_number < dirResult.entries[j].line_number

\* C2: a scan_file failure on an admitted file does not stop the walk: unless a
\* directory cannot be listed, scan_directory returns Ok, with the entries of
\* exactly the admitted files whose scan succeeded and none of the failed file.
C2_FileErrorIsolated ==
    (/\ pc = "dir_returned"
     /\ fs.badFile \in AdmittedFiles(CurrentRoot)
     /\ ~ReachesBadDir(CurrentRoot))
        => /\ dirResult.ok
           /\ \A i \in 1..Len(dirResult.entries) :
                 dirResult.entries[i].file_path # fs.badFile
           /\ \A p \in AdmittedFiles(CurrentRoot) \ {fs.badFile} :
                 \A n \in 1..Len(ScanOf(p).entries) :
                    \E i \in 1..Len(dirResult.entries) :
                       dirResult.entries[i] = ScanOf(p).entries[n]
           /\ \A i \in 1..Len(dirResult.entries) :
                 \E p \in AdmittedFiles(CurrentRoot) \ {fs.badFile} :
                    \E n \in 1..Len(ScanOf(p).entries) :
                       dirResult.entries[i] = ScanOf(p).entries[n]

\* p/a.py failed on its second line, after the match on its first; the walk went
\* on and returned the entries of other files.
C2_Witness ==
    /\ DirReturnedOk
    /\ fs.badFile = FileA /\ fs.badLine = 2
    /\ FileA \in AdmittedFiles(CurrentRoot)
    /\ Captures(config.keywords, FileLines(FileA)[1]) # NoneV
    /\ dirResult.entries # <<>>
    /\ \E w \in 1..Len(warnings) : warnings[w] = FileWarning(FileA)

\* A directory named .git lies between root and the file.
UnderGit(path, root) ==
    \E k \in (Len(root) + 1)..(Len(path) - 1) : path[k] = DotGit

\* C3: with respect_gitignore set or not, scan_directory returns no entry of a
\* file that has a directory named .git among its ancestors below the root.
C3_NothingFromGit ==
    DirReturnedOk =>
        \A i \in 1..Len(dirResult.entries) :
            ~UnderGit(dirResult.entries[i].file_path, CurrentRoot)

\* C4: scan_directory returns no entry of a file whose path string contains an
\* exclude pattern, be the file eligible by extension or by file name.
C4_ExcludedContributeNothing ==
    DirReturnedOk =>
        \A i \in 1..Len(dirResult.entries) :
            ~AnyPatternMatches(config.exclude_patterns, dirResult.entries[i].file_path)

\* C5: with include patterns given, scan_directory returns entries only of files
\* whose path string contains one of them, be the file eligible by extension or
\* by file name.
C5_OnlyIncludedContribute ==
    (DirReturnedOk /\ config.include_patterns # <<>>) =>
        \A i \in 1..Len(dirResult.entries) :
            AnyPatternMatches(config.include_patterns, dirResult.entries[i].file_path)

---------------------------------------------------------------------------
\* The lines next_line has handed out so far hold a keyword at these positions.
MatchingLines(lines, upTo) ==
    { k \in 1..upTo : Trim(lines[k]) # <<>> /\ Captures(config.keywords, lines[k]) # NoneV }

SfReturnedFile == sf.pc = "returned" /\ sf.meta.kind = "file"

\* C6: scan_file on a regular file larger than max_file_size returns Ok with no
\* entry and reads no line; on a file of at most max_file_size that opens and
\* reads without error it reads every line and returns an entry for each line
\* that holds a keyword.
C6_LargeSkippedSmallInFull ==
    SfReturnedFile =>
        /\ FileSize(sf.meta.lines) > config.max_file_size
              => sf.result = Ok(<<>>) /\ sf.pos = 0
        /\ (/\ FileSize(sf.meta.lines) <= config.max_file_size
            /\ ~sf.meta.openFail
            /\ sf.meta.failAt = 0)
              => /\ sf.result.ok
                 /\ sf.pos = Len(sf.meta.lines)
                 /\ { sf.result.entries[i].line_number : i \in 1..Len(sf.result.entries) }
                       = MatchingLines(sf.meta.lines, Len(sf.meta.lines))

\* A file one byte over max_file_size, with a keyword in it, returned empty.
C6_Witness ==
    /\ SfReturnedFile
    /\ FileSize(sf.meta.lines) = config.max_file_size + 1
    /\ MatchingLines(sf.meta.lines, Len(sf.meta.lines)) # {}
    /\ sf.result = Ok(<<>>)
    /\ sf.pos = 0

\* C8: at every point of scan_file's loop, the entries are those of the matching
\* lines read so far, one per line, in order, and each carries as line_number the
\* position of its line in the file, blank lines counted, and that line's
\* trimmed text.
C8_PhysicalLineNumbers ==
    sf.pc \in {"loop", "returned"} =>
        /\ sf.st.line_number = sf.pos
        /\ { sf.st.entries[i].line_number : i \in 1..Len(sf.st.entries) }
              = MatchingLines(sf.meta.lines, sf.pos)
        /\ \A i \in 1..Len(sf.st.entries) :
              /\ sf.st.entries[i].text = Trim(sf.meta.lines[sf.st.entries[i].line_number])
              /\ Some(sf.st.entries[i].keyword)
                    = Captures(config.keywords, sf.meta.lines[sf.st.entries[i].line_number])
              /\ \A j \in 1..Len(sf.st.entries) :
                    i < j => sf.st.entries[i].line_number < sf.st.entries[j].line_number
        /\ (sf.pc = "returned" /\ sf.result.ok) => sf.result.entries = sf.st.entries

\* A returned entry whose line comes after a blank line.
C8_Witness ==
    /\ sf.pc = "returned" /\ sf.result.ok
    /\ \E i \in 1..Len(sf.result.entries) :
          \E k \in 1..(sf.result.entries[i].line_number - 1) :
             Trim(sf.meta.lines[k]) = <<>>

---------------------------------------------------------------------------
\* l holds keyword k, case folded, with no word character right before or after.
HoldsWholeWord(k, l) ==
    \E i \in 1..(Len(l) - Len(k) + 1) :
        /\ FoldCase(SubSeq(l, i, i + Len(k) - 1)) = FoldCase(k)
        /\ i > 1 => ~IsWordChar(l[i - 1])
        /\ i + Len(k) <= Len(l) => ~IsWordChar(l[i + Len(k)])

\* C7: for every keyword list and every line that is not blank, the loop makes an
\* entry for the line if and only if the line holds one of the keywords, case
\* folded, as a whole word.
C7_EntryIffWholeWord ==
    (captured.done /\ Trim(line) # <<>>) =>
        (captured.st.entries # <<>>
            <=> \E n \in 1..Len(config.keywords) : HoldsWholeWord(config.keywords[n], line))

---------------------------------------------------------------------------
\* The scan of one root of the command line fails.
RootFails(path) ==
    IF IsFile(fs, path) THEN ~ScanOf(path).ok
    ELSE IsDir(fs, path) /\ ReachesBadDir(path)

\* What the scan of one root contributes when nothing else is scanned.
EntriesOfRoot(path) ==
    IF IsFile(fs, path) THEN ScanOf(path).entries
    ELSE IF IsDir(fs, path) /\ ~ReachesBadDir(path) THEN InPathOrder(AdmittedFiles(path))
    ELSE <<>>

RECURSIVE EntriesOfRoots(_)
EntriesOfRoots(paths) ==
    IF paths = <<>> THEN <<>>
    ELSE EntriesOfRoot(Head(paths)) \o EntriesOfRoots(Tail(paths))

\* One "Failed to scan" warning of main's for each root whose scan fails, in order.
RECURSIVE FailureWarningsOfRoots(_)
FailureWarningsOfRoots(paths) ==
    IF paths = <<>> THEN <<>>
    ELSE (IF RootFails(Head(paths)) THEN <<RootWarning("Failed to scan", Head(paths))>>
          ELSE <<>>)
            \o FailureWarningsOfRoots(Tail(paths))

FailureByMain(w) == w.by = "main" /\ w.what = "Failed to scan"

\* The (line number, text) pairs the rendering shows, in order.
RenderedRows ==
    IF output.out.format = "text"
    THEN [i \in 1..Len(output.out.rows) |->
            <<output.out.rows[i].line_number, output.out.rows[i].text>>]
    ELSE [i \in 1..Len(output.out.array) |->
            <<output.out.array[i].line_number, output.out.array[i].text>>]

RowsOf(es) == [i \in 1..Len(es) |-> <<es[i].line_number, es[i].text>>]

\* C9: the sequence main hands to the renderer ascends by (file_path,
\* line_number), and the text rendering writes one header per distinct file.
C9_RenderedInOrder ==
    pc = "exited" =>
        /\ Ascending(all_entries)
        /\ output.out.format = "text" =>
              Len(output.out.headers)
                = Cardinality({ all_entries[i].file_path : i \in 1..Len(all_entries) })

\* C10 as stated: with several roots the run never aborts, the entries of every
\* root whose scan succeeds are rendered, and main's failure warnings are one for
\* each root whose scan fails.
C10_FailedRootWarnedOthersScanned ==
    /\ pc # "aborted"
    /\ (pc = "exited" /\ Len(cli.paths) >= 2) =>
          /\ all_entries = EntriesOfRoots(cli.paths)
          /\ RenderedRows = RowsOf(EntriesOfRoots(cli.paths))
          /\ SelectSeq(warnings, FailureByMain) = FailureWarningsOfRoots(cli.paths)

\* C10, amended: with several roots the run never aborts, the entries of every
\* root whose scan succeeds are rendered, and main's failure warnings are one for
\* each root whose scan fails unless --quiet is given, and none then.
C10_FailedRootIsolated ==
    /\ pc # "aborted"
    /\ (pc = "exited" /\ Len(cli.paths) >= 2) =>
          /\ all_entries = EntriesOfRoots(cli.paths)
          /\ RenderedRows = RowsOf(EntriesOfRoots(cli.paths))
          /\ SelectSeq(warnings, FailureByMain)
                = IF cli.quiet THEN <<>> ELSE FailureWarningsOfRoots(cli.paths)

\* A run over a directory whose walk failed and another root with entries, which
\* were rendered, the failure warned about.
C10_Witness ==
    /\ pc = "exited"
    /\ ~cli.quiet
    /\ \E i, j \in 1..Len(cli.paths) :
          /\ IsDir(fs, cli.paths[i]) /\ ReachesBadDir(cli.paths[i])
          /\ ~RootFails(cli.paths[j]) /\ EntriesOfRoot(cli.paths[j]) # <<>>
          /\ \E w \in 1..Len(warnings) :
                warnings[w] = RootWarning("Failed to scan", cli.paths[i])
    /\ RenderedRows # <<>>
(***************************************************************************)
(* C11: context of an entry, and its JSON rendering.                       *)
(***************************************************************************)
\* The line of its file an entry was found on, as read.
MatchedLine(e) == FileLines(e.file_path)[e.line_number]

\* C11: every entry scan_file produced has a context iff context_lines > 0,
\* and that context is the matched line itself; once main has rendered JSON,
\* the array has one object per entry, in order, with the entry's line_number
\* and keyword, and an object has a context field (holding the context, never
\* null) exactly when its entry has a context.
C11_ContextAndJson ==
    /\ \A i \in 1..Len(all_entries) :
          LET e == all_entries[i]
          IN  /\ (e.context # NoneV) <=> (config.context_lines > 0)
              /\ e.context # NoneV => e.context = Some(MatchedLine(e))
    /\ (pc = "exited" /\ cli.format = "json") =>
          /\ Len(output.out.array) = Len(all_entries)
          /\ \A i \in 1..Len(all_entries) :
                LET e == all_entries[i]
                    o == output.out.array[i]
                IN  /\ o.line_number = e.line_number
                    /\ o.keyword = e.keyword
                    /\ ("context" \in DOMAIN o) <=> (e.context # NoneV)
                    /\ "context" \in DOMAIN o =>
                          o.context # NoneV /\ o.context = e.context[1]

\* JSON was rendered for entries that carry a context, one of them found on an
\* indented line, so that the context differs from the entry's text.
C11_Witness ==
    /\ pc = "exited" /\ cli.format = "json"
    /\ config.context_lines > 0
    /\ Len(output.out.array) >= 2
    /\ \E i \in 1..Len(all_entries) :
          /\ all_entries[i].context # NoneV
          /\ all_entries[i].context[1] # all_entries[i].text
          /\ output.out.array[i].context = MatchedLine(all_entries[i])

\* JSON was rendered for entries without a context.
C11_WitnessNoContext ==
    /\ pc = "exited" /\ cli.format = "json"
    /\ config.context_lines = 0
    /\ all_entries # <<>>
    /\ \A i \in 1..Len(output.out.array) : "context" \notin DOMAIN output.out.array[i]

(***************************************************************************)
(* C12: a rejected directory is pruned, not filtered after listing.        *)
(***************************************************************************)
\* A directory the ignore heuristic rejects: it is named .git, or its parent
\* holds a .gitignore file and its name starts with '.' or contains node_modules.
RejectedDir(d) ==
    /\ IsDir(fs, d)
    /\ \/ FileName(d) = DotGit
       \/ /\ IsFile(fs, Join(Parent(d), DotGitignore))
          /\ \/ Head(FileName(d)) = "."
             \/ Contains(FileName(d), NodeModules)

\* path lies below a rejected directory that is root or below root.
BelowRejected(path, root) ==
    /\ IsPrefix(root, path)
    /\ \E k \in Len(root)..(Len(path) - 1) : RejectedDir(SubSeq(path, 1, k))

\* Everything the walker has listed and not yet yielded.
Listed == UNION { stack[i] : i \in 1..Len(stack) }

\* The files below root that are outside every rejected directory, are not
\* themselves filtered out and pass should_scan_file.
OutsideRejected(root) ==
    { p \in Files(fs) : /\ IsPrefix(root, p)
                        /\ ~BelowRejected(p, root)
                        /\ ~FilteredOut(p)
                        /\ ShouldScanFile(config, p) }

\* C12: with respect_gitignore set, nothing below a rejected directory is ever
\* listed by the walker, so scan_file is never called on a descendant (calls
\* are made on listed entries only): no entry and no scan_file warning of the
\* walk is of a descendant, a rejected directory that cannot be read does not
\* fail the walk, and the result has the entries of every file outside the
\* rejected directories.
C12_RejectedSubtreePruned ==
    config.respect_gitignore =>
        /\ pc = "walk" =>
              /\ \A e \in Listed : ~BelowRejected(e, CurrentRoot)
              /\ \A i \in 1..Len(entries) :
                    ~BelowRejected(entries[i].file_path, CurrentRoot)
        /\ pc \in {"walk", "dir_returned"} =>
              \A w \in 1..Len(warnings) :
                 warnings[w].by = "scan_directory"
                    => ~BelowRejected(warnings[w].path, CurrentRoot)
        /\ (pc = "dir_returned" /\ ~dirResult.ok) =>
              /\ IsDir(fs, fs.badDir)
              /\ ~RejectedDir(fs.badDir)
              /\ ~BelowRejected(fs.badDir, CurrentRoot)
        /\ DirReturnedOk =>
              /\ \A i \in 1..Len(dirResult.entries) :
                    ~BelowRejected(dirResult.entries[i].file_path, CurrentRoot)
              /\ \A p \in OutsideRejected(CurrentRoot) :
                    ScanOf(p).ok =>
                       \A n \in 1..Len(ScanOf(p).entries) :
                          \E i \in 1..Len(dirResult.entries) :
                             dirResult.entries[i] = ScanOf(p).entries[n]

\* The walk of p returned: p/.git and p/node_modules (beside p/.gitignore) were
\* rejected, p/node_modules could not even be read, each holds a file with a
\* match, and the entries of their sibling p/a.py are in the result.
C12_Witness ==
    /\ DirReturnedOk
    /\ config.respect_gitignore /\ fs.gitignore
    /\ CurrentRoot = DirP
    /\ RejectedDir(DirGit) /\ RejectedDir(DirNodeModules)
    /\ fs.badDir = DirNodeModules
    /\ ScanOf(FileH).entries # <<>> /\ ScanOf(FileC).entries # <<>>
    /\ ShouldScanFile(config, FileH) /\ ShouldScanFile(config, FileC)
    /\ \E i \in 1..Len(dirResult.entries) : dirResult.entries[i].file_path = FileA

(***************************************************************************)
(* C13: one entry per line.                                                *)
(***************************************************************************)
\* The places of line l where one of the keywords stands as a whole word.
Occurrences(keywords, l) ==
    { i \in 1..(Len(l) + 1) :
        \E n \in 1..Len(keywords) : KeywordMatchesAt(keywords[n], l, i) }

\* Entry e records the leftmost keyword occurrence of its line.
RecordsLeftmost(e) ==
    LET l == FileLines(e.file_path)[e.line_number]
        occ == Occurrences(config.keywords, l)
    IN  /\ occ # {}
        /\ \E i \in occ :
              /\ \A j \in occ : i <= j
              /\ e.keyword = SubSeq(l, i, i + Len(e.keyword) - 1)

\* The entries of es that are of one file have strictly increasing line numbers.
StrictlyIncreasingPerFile(es) ==
    \A i, j \in 1..Len(es) :
        (i < j /\ es[i].file_path = es[j].file_path)
            => es[i].line_number < es[j].line_number

\* No two entries of es have the same file_path and line_number.
NoSharedLine(es) ==
    \A i, j \in 1..Len(es) :
        i # j => <<es[i].file_path, es[i].line_number>>
                    # <<es[j].file_path, es[j].line_number>>

\* C13: scan_file gives at most one entry per physical line, the one of the
\* leftmost keyword occurrence, also on a line with several occurrences: the
\* entries scan_directory has collected from each file have strictly increasing
\* line numbers, and no two entries of the returned sequence share
\* (file_path, line_number).
C13_OneEntryPerLine ==
    /\ pc = "walk" =>
          /\ StrictlyIncreasingPerFile(entries)
          /\ NoSharedLine(entries)
          /\ \A i \in 1..Len(entries) : RecordsLeftmost(entries[i])
    /\ DirReturnedOk =>
          /\ StrictlyIncreasingPerFile(dirResult.entries)
          /\ NoSharedLine(dirResult.entries)
          /\ \A i \in 1..Len(dirResult.entries) : RecordsLeftmost(dirResult.entries[i])

\* The returned sequence has the two entries of p/m.go, each from a line with
\* two keyword occurrences, the first recorded as FIXME where todo follows.
C13_Witness ==
    /\ DirReturnedOk
    /\ \E i, j \in 1..Len(dirResult.entries) :
          /\ dirResult.entries[i].file_path = FileM
          /\ dirResult.entries[j].file_path = FileM
          /\ dirResult.entries[i].line_number = 1
          /\ dirResult.entries[j].line_number = 2
          /\ dirResult.entries[i].keyword = KwFixme
          /\ Cardinality(Occurrences(config.keywords, FileLines(FileM)[1])) = 2
          /\ Cardinality(Occurrences(config.keywords, FileLines(FileM)[2])) = 2

(***************************************************************************)
(* C14: the rolling line buffer.                                           *)
(***************************************************************************)
\* The non-blank lines among the first upTo lines, in file order.
NonBlankLines(lines, upTo) ==
    SelectSeq(SubSeq(lines, 1, upTo), LAMBDA l : Trim(l) # <<>>)

\* The last n elements of s, or all of s if it has fewer.
LastOf(s, n) == IF Len(s) <= n THEN s ELSE SubSeq(s, Len(s) - n + 1, Len(s))

BufferCap == config.context_lines * 2 + 1

\* C14: after every iteration of scan_file's line loop the rolling buffer holds
\* at most 2*context_lines+1 lines, none of them blank: the most recent
\* non-blank lines read, in file order; with context_lines = 0 it is empty all
\* along; and the entries the next iteration produces are the same whatever the
\* buffer holds.
C14_RollingBuffer ==
    sf.pc \in {"loop", "returned"} =>
        LET buf == sf.st.line_buffer
            read == NonBlankLines(sf.meta.lines, sf.pos)
        IN  /\ Len(buf) <= BufferCap
            /\ \A i \in 1..Len(buf) : Trim(buf[i]) # <<>>
            /\ config.context_lines > 0 => buf = LastOf(read, BufferCap)
            /\ config.context_lines = 0 => buf = <<>>
            /\ (sf.pc = "loop" /\ sf.pos < Len(sf.meta.lines)) =>
                  \A b \in {<<>>, read, <<sf.meta.lines[sf.pos + 1]>>} :
                     LoopStep(config, sf.path, [sf.st EXCEPT !.line_buffer = b],
                              sf.meta.lines[sf.pos + 1]).entries
                        = LoopStep(config, sf.path, sf.st, sf.meta.lines[sf.pos + 1]).entries

\* With context_lines = 1, a fourth non-blank line has pushed the first one out
\* of the buffer, a blank line lying among them, and an entry was produced.
C14_Witness ==
    /\ sf.pc = "loop"
    /\ config.context_lines = 1
    /\ Len(NonBlankLines(sf.meta.lines, sf.pos)) = 4
    /\ \E k \in 1..sf.pos : Trim(sf.meta.lines[k]) = <<>>
    /\ Len(sf.st.line_buffer) = 3
    /\ sf.st.line_buffer = Tail(NonBlankLines(sf.meta.lines, sf.pos))
    /\ sf.st.entries # <<>>

\* With context_lines = 0, non-blank lines were read and the buffer is empty.
C14_WitnessNoContext ==
    /\ sf.pc = "loop"
    /\ config.context_lines = 0
    /\ Len(NonBlankLines(sf.meta.lines, sf.pos)) >= 2
    /\ sf.st.line_buffer = <<>>

====
